---- MODULE Spec2Model ----
(***************************************************************************)
(* A model of the similarity detector: the TSED scorer                     *)
(* (crates/core/src/tsed.rs), the Python function extractor                *)
(* (crates/core/src/python_parser.rs) and the pair comparison driver of    *)
(* the command line tool (known from its integration tests).               *)
(*                                                                         *)
(* f64 values are modelled as exact numbers: a rational is a reduced       *)
(* fraction [num, den], and a value that went through powf(0.5) is a       *)
(* rational coefficient times the square root of a rational radicand.      *)
(***************************************************************************)
EXTENDS Integers, Sequences, FiniteSets, TLC

VARIABLES
    pc,          \* "start" before the operation under study has run, "done" after
    tree1,       \* calculate_tsed: first tree
    tree2,       \* calculate_tsed: second tree
    options,     \* calculate_tsed: TSEDOptions
    distance,    \* calculate_tsed: the local `distance`
    similarity,  \* calculate_tsed: the returned f64
    root_node,   \* PythonParser: the concrete syntax tree of the source
    functions,   \* PythonParser::extract_functions: the returned Vec
    parsed,      \* PythonParser::parse: the returned tree
    file,        \* driver: the function records of the input file
    cli,         \* driver: the command line options
    stdout,      \* driver: what the run printed
    exit_code    \* driver: the exit status, -1 while running

vars == <<pc, tree1, tree2, options, distance, similarity,
          root_node, functions, parsed, file, cli, stdout, exit_code>>

tsed_vars == <<tree1, tree2, options, distance, similarity>>
python_vars == <<root_node, functions, parsed>>
driver_vars == <<file, cli, stdout, exit_code>>

(***************************************************************************)
(* Bounds of the model.                                                    *)
(***************************************************************************)
MaxTreeSize == 23

(***************************************************************************)
(* f64 arithmetic, exact.                                                  *)
(***************************************************************************)
Abs(n) == IF n < 0 THEN -n ELSE n

RECURSIVE GCD(_, _)
GCD(a, b) == IF b = 0 THEN a ELSE GCD(b, a % b)

\* The fraction n/d in lowest terms with a positive denominator; 0/0 is NaN.
Rat(n, d) ==
    IF d = 0 THEN [num |-> 0, den |-> 0]
    ELSE LET g == GCD(Abs(n), Abs(d))
             s == IF d < 0 THEN -1 ELSE 1
         IN  [num |-> s * (n \div g), den |-> s * (d \div g)]

NaN == [num |-> 0, den |-> 0]
Zero == Rat(0, 1)
One == Rat(1, 1)
Half == Rat(1, 2)
IsNaN(a) == a.den = 0

RAdd(a, b) == IF IsNaN(a) \/ IsNaN(b) THEN NaN
              ELSE Rat(a.num * b.den + b.num * a.den, a.den * b.den)
RSub(a, b) == IF IsNaN(a) \/ IsNaN(b) THEN NaN
              ELSE Rat(a.num * b.den - b.num * a.den, a.den * b.den)
RMul(a, b) == IF IsNaN(a) \/ IsNaN(b) THEN NaN
              ELSE Rat(a.num * b.num, a.den * b.den)
\* Division of non-negative values; 0/0 is NaN as in IEEE 754.
RDiv(a, b) == IF IsNaN(a) \/ IsNaN(b) THEN NaN
              ELSE Rat(a.num * b.den, a.den * b.num)
\* Comparisons with a NaN operand are false.
RLess(a, b) == ~IsNaN(a) /\ ~IsNaN(b) /\ a.num * b.den < b.num * a.den
RLeq(a, b) == ~IsNaN(a) /\ ~IsNaN(b) /\ a.num * b.den <= b.num * a.den
\* f64::max and f64::min return the other operand when one is NaN.
F64Max(a, b) == IF IsNaN(a) THEN b ELSE IF IsNaN(b) THEN a
                ELSE IF RLess(a, b) THEN b ELSE a
F64Min(a, b) == IF IsNaN(a) THEN b ELSE IF IsNaN(b) THEN a
                ELSE IF RLess(b, a) THEN b ELSE a

\* A non-negative real c * sqrt(r), c and r rational.
Real(q) == [c |-> q, r |-> One]
\* q.powf(0.5)
Powf05(q) == IF IsNaN(q) THEN [c |-> NaN, r |-> One] ELSE [c |-> One, r |-> q]
\* x * y
Times(x, y) == [c |-> RMul(x.c, y.c), r |-> RMul(x.r, y.r)]
\* The square of a real, a rational: x and y (both >= 0) are equal iff their
\* squares are.
Square(x) == RMul(RMul(x.c, x.c), x.r)
RealIsNaN(x) == IsNaN(x.c) \/ IsNaN(x.r)
RealGeqZero(x) == ~RealIsNaN(x) /\ x.c.num >= 0
RealLeqOne(x) == ~RealIsNaN(x) /\ (x.c.num < 0 \/ RLeq(Square(x), One))
RealEq(x, y) == /\ ~RealIsNaN(x) /\ ~RealIsNaN(y)
                /\ x.c.num >= 0 /\ y.c.num >= 0
                /\ Square(x) = Square(y)

(***************************************************************************)
(* Trees.  The tree type and the edit distance engine are not part of the  *)
(* sources at hand; they are modelled from their contract, on the family   *)
(* of chains: a tree is a path of `size` nodes that all carry the same     *)
(* (label, value).                                                         *)
(***************************************************************************)
TreeValues == {"x", "y"}
Trees == [size : 1..MaxTreeSize, label : {"identifier"}, value : TreeValues]

\* TreeNode::get_subtree_size: the number of nodes of the subtree.
get_subtree_size(tree) == tree.size

\* Two nodes are equal iff both their labels and their values are.
NodesEqual(t1, t2) == t1.label = t2.label /\ t1.value = t2.value

Min(a, b) == IF a < b THEN a ELSE b

\* The cost of the edit script that maps k nodes of t1 onto k nodes of t2
\* (renaming them when they differ), deletes the other nodes of t1 and inserts
\* the other nodes of t2.
ScriptCost(t1, t2, k, costs) ==
    LET ren == IF NodesEqual(t1, t2) THEN Zero ELSE costs.rename_cost
    IN  RAdd(RAdd(RMul(Rat(t1.size - k, 1), costs.delete_cost),
                  RMul(Rat(t2.size - k, 1), costs.insert_cost)),
             RMul(Rat(k, 1), ren))

\* The minimum cost over the edit scripts.  The cost is linear in k, so the
\* minimum is at one end of the range.
compute_edit_distance(t1, t2, costs) ==
    LET m == Min(t1.size, t2.size)
        a == ScriptCost(t1, t2, 0, costs)
        b == ScriptCost(t1, t2, m, costs)
    IN  IF RLess(b, a) THEN b ELSE a

(***************************************************************************)
(* calculate_tsed (tsed.rs).                                               *)
(***************************************************************************)
ShortFunctionSize == 20

CostValues == {Zero, Rat(3, 10), One, Rat(3, 2)}
APTEDOptionsSet ==
    [rename_cost : CostValues, delete_cost : CostValues, insert_cost : CostValues]
TSEDOptionsSet ==
    [apted_options : APTEDOptionsSet, min_lines : {5}, size_penalty : BOOLEAN]

\* TSEDOptions::default()
DefaultOptions ==
    [apted_options |-> [rename_cost |-> Rat(3, 10), delete_cost |-> One,
                        insert_cost |-> One],
     min_lines |-> 5, size_penalty |-> TRUE]

\* Mutant: the first tree's size as the normalizer.
max_size_of_first(size1, size2) == size1

\* Mutant: the smaller size as the normalizer.
max_size_of_min(size1, size2) == F64Min(size1, size2)

\* let max_size = size1.max(size2);
max_size_of(size1, size2) == F64Max(size1, size2)

\* Mutant: the clamp at zero left out.
tsed_similarity_of_unclamped(dist, max_size) ==
    IF RLess(Zero, max_size) THEN RSub(One, RDiv(dist, max_size)) ELSE One

\* if max_size > 0.0 { (1.0 - distance / max_size).max(0.0) } else { 1.0 }
tsed_similarity_of(dist, max_size) ==
    IF RLess(Zero, max_size)
    THEN F64Max(RSub(One, RDiv(dist, max_size)), Zero)
    ELSE One

\* Mutant: the factor applied whatever the size.
short_function_penalty_unguarded(sim, min_size) ==
    Times(sim, Powf05(RDiv(min_size, Rat(ShortFunctionSize, 1))))

\* if min_size < 20.0 { similarity *= (min_size / 20.0).powf(0.5); }
short_function_penalty(sim, min_size) ==
    IF RLess(min_size, Rat(ShortFunctionSize, 1))
    THEN Times(sim, Powf05(RDiv(min_size, Rat(ShortFunctionSize, 1))))
    ELSE sim

\* Mutant: the factor applied at a ratio of exactly one half too.
size_ratio_penalty_leq(sim, size_ratio) ==
    IF RLeq(size_ratio, Half) THEN Times(sim, Powf05(size_ratio)) ELSE sim

\* if size_ratio < 0.5 { similarity *= size_ratio.powf(0.5); }
size_ratio_penalty(sim, size_ratio) ==
    IF RLess(size_ratio, Half)
    THEN Times(sim, Powf05(size_ratio))
    ELSE sim

\* The value calculate_tsed returns, given the edit distance it computed.
tsed_from_distance(dist, t1, t2, opts) ==
    LET size1 == Rat(get_subtree_size(t1), 1)
        size2 == Rat(get_subtree_size(t2), 1)
        max_size == max_size_of(size1, size2)
        tsed_similarity == tsed_similarity_of(dist, max_size)
        size_ratio == RDiv(F64Min(size1, size2), F64Max(size1, size2))
        min_size == F64Min(size1, size2)
    IN  IF opts.size_penalty
        THEN size_ratio_penalty(
                 short_function_penalty(Real(tsed_similarity), min_size),
                 size_ratio)
        ELSE Real(tsed_similarity)

calculate_tsed(t1, t2, opts) ==
    tsed_from_distance(compute_edit_distance(t1, t2, opts.apted_options),
                       t1, t2, opts)

(***************************************************************************)
(* The concrete syntax tree tree-sitter hands to PythonParser.  A node has *)
(* a kind, the field name it has in its parent ("" for none), its source   *)
(* text (kept for identifiers only), its first and last row (0-based) and  *)
(* its children, anonymous tokens included.                                *)
(***************************************************************************)
MaxItems == 2
MaxDecorators == 1

Leaf(kind, field, text, row) ==
    [kind |-> kind, field |-> field, text |-> text,
     start_row |-> row, end_row |-> row, children |-> <<>>]

Inner(kind, field, start_row, children) ==
    [kind |-> kind, field |-> field, text |-> "",
     start_row |-> start_row,
     end_row |-> IF children = <<>> THEN start_row
                 ELSE children[Len(children)].end_row,
     children |-> children]

\* The source programs, before layout: a definition carries the number of its
\* decorators and its body.
PassStmt == [t |-> "pass", dec |-> 0, body |-> <<>>]
CommentLine == [t |-> "comment", dec |-> 0, body |-> <<>>]
Def(dec, body) == [t |-> "def", dec |-> dec, body |-> body]
Class(dec, body) == [t |-> "class", dec |-> dec, body |-> body]
IfStmt(body) == [t |-> "if", dec |-> 0, body |-> body]

\* def f(..): pass, under 0..MaxDecorators decorators
SimpleDefs == {Def(d, <<PassStmt>>) : d \in 0..MaxDecorators}
\* A class of one definition, inside another class.
InnerClasses == {Class(c, <<m>>) : c \in 0..1, m \in SimpleDefs}
ClassItems ==
    SimpleDefs \cup InnerClasses \cup {PassStmt, IfStmt(<<Def(0, <<PassStmt>>)>>)}
PairItems ==
    {Def(0, <<PassStmt>>), Class(0, <<Def(0, <<PassStmt>>)>>), CommentLine}
ClassBodies ==
    {<<m>> : m \in ClassItems} \cup {<<m1, m2>> : m1 \in PairItems, m2 \in PairItems}
TopItems ==
    SimpleDefs
    \cup {PassStmt, CommentLine,
          IfStmt(<<Def(0, <<PassStmt>>)>>),
          Def(0, <<Def(MaxDecorators, <<PassStmt>>)>>)}
    \cup {Class(c, b) : c \in 0..1, b \in {<<m>> : m \in ClassItems}}
    \cup {Class(0, <<m1, m2>>) : m1 \in PairItems, m2 \in PairItems}

RECURSIVE SeqsUpTo(_, _)
SeqsUpTo(S, n) ==
    IF n = 0 THEN {<<>>}
    ELSE LET shorter == SeqsUpTo(S, n - 1)
         IN  shorter \cup {Append(q, x) : q \in {r \in shorter : Len(r) = n - 1},
                                          x \in S}

Modules == SeqsUpTo(TopItems, MaxItems) \ {<<>>}

\* Names by position: the i-th item of a body is named f, g or h when it is a
\* function; A, B, C when a module-level class; X, Y, Z when a nested class.
FnNames == <<"f", "g", "h", "k">>
ClassNames == <<"A", "B", "C", "D">>
NestedClassNames == <<"X", "Y", "Z", "W">>

\* (a) for the first function of a body, (a, b=0) for the others
Parameters(idx, row) ==
    Inner("parameters", "parameters", row,
          IF idx = 1
          THEN <<Leaf("(", "", "", row), Leaf("identifier", "", "a", row),
                 Leaf(")", "", "", row)>>
          ELSE <<Leaf("(", "", "", row), Leaf("identifier", "", "a", row),
                 Leaf(",", "", "", row),
                 Inner("default_parameter", "", row,
                       <<Leaf("identifier", "name", "b", row),
                         Leaf("=", "", "", row),
                         Leaf("integer", "value", "0", row)>>),
                 Leaf(")", "", "", row)>>)

Decorator(row) ==
    Inner("decorator", "", row,
          <<Leaf("@", "", "", row), Leaf("identifier", "", "dec", row)>>)

RECURSIVE Layout(_, _, _, _, _), LayoutSeq(_, _, _, _)

\* The nodes of the statements `items`, the first one on row `row`; `depth` is
\* the number of enclosing classes and `idx` the position of the first item.
LayoutSeq(items, row, depth, idx) ==
    IF items = <<>> THEN <<>>
    ELSE LET head == Layout(items[1], row, depth, idx, "")
         IN  <<head>> \o LayoutSeq(Tail(items), head.end_row + 1, depth, idx + 1)

Layout(item, row, depth, idx, field) ==
    CASE item.t = "pass" ->
            Inner("pass_statement", field, row, <<Leaf("pass", "", "", row)>>)
      [] item.t = "comment" -> Leaf("comment", field, "", row)
      [] item.t = "if" ->
            Inner("if_statement", field, row,
                  <<Leaf("if", "", "", row),
                    Leaf("identifier", "condition", "c", row),
                    Leaf(":", "", "", row),
                    Inner("block", "consequence", row + 1,
                          LayoutSeq(item.body, row + 1, depth, 1))>>)
      [] item.t = "def" /\ item.dec = 0 ->
            Inner("function_definition", field, row,
                  <<Leaf("def", "", "", row),
                    Leaf("identifier", "name", FnNames[idx], row),
                    Parameters(idx, row),
                    Leaf(":", "", "", row),
                    Inner("block", "body", row + 1,
                          LayoutSeq(item.body, row + 1, depth, 1))>>)
      [] item.t = "class" /\ item.dec = 0 ->
            Inner("class_definition", field, row,
                  <<Leaf("class", "", "", row),
                    Leaf("identifier", "name",
                         IF depth = 0 THEN ClassNames[idx]
                         ELSE NestedClassNames[idx], row),
                    Leaf(":", "", "", row),
                    Inner("block", "body", row + 1,
                          LayoutSeq(item.body, row + 1, depth + 1, 1))>>)
      [] OTHER ->
            Inner("decorated_definition", field, row,
                  [i \in 1..item.dec |-> Decorator(row + i - 1)]
                  \o <<Layout([item EXCEPT !.dec = 0], row + item.dec, depth,
                              idx, "definition")>>)

\* tree.root_node() of the parsed source
RootNode(module) == Inner("module", "", 0, LayoutSeq(module, 0, 0, 1))

(***************************************************************************)
(* PythonParser::extract_functions (python_parser.rs).                     *)
(***************************************************************************)
None == [is_some |-> FALSE]
Some(v) == [is_some |-> TRUE, v |-> v]

\* Node::child_by_field_name: the first child with that field name.
child_by_field_name(node, name) ==
    LET hits == {i \in 1..Len(node.children) : node.children[i].field = name}
    IN  IF hits = {} THEN None
        ELSE Some(node.children[CHOOSE i \in hits : \A j \in hits : i <= j])

\* Node::child(index), 0-based.
node_child(node, index) ==
    IF index < Len(node.children) THEN Some(node.children[index + 1]) ELSE None

\* usize::saturating_sub
saturating_sub(a, b) == IF a >= b THEN a - b ELSE 0

RECURSIVE extract_params_from(_)
extract_params_from(children) ==
    IF children = <<>> THEN <<>>
    ELSE LET child == children[1]
             rest == extract_params_from(Tail(children))
         IN  CASE child.kind = "identifier" -> <<child.text>> \o rest
               [] child.kind \in {"typed_parameter", "default_parameter"} ->
                      LET ident == child_by_field_name(child, "name")
                      IN  IF ident.is_some THEN <<ident.v.text>> \o rest ELSE rest
               [] OTHER -> rest

extract_params(params_node) ==
    IF params_node.is_some THEN extract_params_from(params_node.v.children)
    ELSE <<>>

\* The record pushed for the definition `def`, whose span is that of `node`.
GenericFunctionDef(node, def, name_node, class_name) ==
    LET body_node == child_by_field_name(def, "body")
    IN  [name |-> name_node.text,
         start_line |-> node.start_row + 1,
         end_line |-> node.end_row + 1,
         body_start_line |-> IF body_node.is_some THEN body_node.v.start_row + 1
                             ELSE 0,
         body_end_line |-> IF body_node.is_some THEN body_node.v.end_row + 1
                           ELSE 0,
         parameters |-> extract_params(child_by_field_name(def, "parameters")),
         is_method |-> class_name.is_some,
         class_name |-> class_name]

\* "function_definition" => { ... }
visit_function_definition(node, class_name) ==
    LET name_node == child_by_field_name(node, "name")
    IN  IF name_node.is_some
        THEN <<GenericFunctionDef(node, node, name_node.v, class_name)>>
        ELSE <<>>

\* "decorated_definition" => { ... }
visit_decorated_definition(node, class_name) ==
    LET child == node_child(node, saturating_sub(Len(node.children), 1))
    IN  IF child.is_some /\ child.v.kind = "function_definition"
        THEN LET name_node == child_by_field_name(child.v, "name")
             IN  IF name_node.is_some
                 THEN <<GenericFunctionDef(node, child.v, name_node.v, class_name)>>
                 ELSE <<>>
        ELSE <<>>

RECURSIVE visit_node(_, _), visit_children(_, _)

\* for child in node.children(..) { visit_node(child, source, functions, class_name) }
visit_children(children, class_name) ==
    IF children = <<>> THEN <<>>
    ELSE visit_node(children[1], class_name)
         \o visit_children(Tail(children), class_name)

\* "class_definition" => { ... }
visit_class_definition(node, class_name) ==
    IF ~class_name.is_some
    THEN LET name_node == child_by_field_name(node, "name")
         IN  IF name_node.is_some
             THEN visit_children(node.children, Some(name_node.v.text))
             ELSE <<>>
    ELSE <<>>

\* The records visit_node pushes onto `functions`, in order.
visit_node(node, class_name) ==
    CASE node.kind = "function_definition" ->
            visit_function_definition(node, class_name)
      [] node.kind = "decorated_definition" ->
            visit_decorated_definition(node, class_name)
      [] node.kind = "class_definition" ->
            visit_class_definition(node, class_name)
      [] OTHER -> visit_children(node.children, class_name)

extract_functions_from_node(node, class_name) == visit_node(node, class_name)

extract_functions(root) == extract_functions_from_node(root, None)

(***************************************************************************)
(* PythonParser::parse and convert_node (python_parser.rs).                *)
(***************************************************************************)
\* The kinds whose source text becomes the value of the tree node.
ValueKinds == {"identifier", "string", "integer", "float", "true", "false", "none"}

\* TreeNode::new(label, value, id), with the children added afterwards.
TreeNode(label, value, id, children) ==
    [label |-> label, value |-> value, id |-> id, children |-> children]

RECURSIVE convert_node(_, _), convert_children(_, _)

\* Mutant: the counter handed to each child by value, so that the next
\* sibling does not see the ids its subtree used.
convert_children_by_value(children, id_counter) ==
    IF children = <<>> THEN [nodes |-> <<>>, id_counter |-> id_counter]
    ELSE LET head == convert_node(children[1], id_counter)
             rest == convert_children(Tail(children), id_counter + 1)
         IN  [nodes |-> <<head.node>> \o rest.nodes,
              id_counter |-> rest.id_counter]

\* for child in node.children(..) { tree_node.add_child(convert_node(child, ..)) }
\* The converted children and the counter after them.
convert_children(children, id_counter) ==
    IF children = <<>> THEN [nodes |-> <<>>, id_counter |-> id_counter]
    ELSE LET head == convert_node(children[1], id_counter)
             rest == convert_children(Tail(children), head.id_counter)
         IN  [nodes |-> <<head.node>> \o rest.nodes,
              id_counter |-> rest.id_counter]

\* The converted node and the counter after the conversion.
convert_node(node, id_counter) ==
    LET current_id == id_counter
        label == node.kind
        value == IF node.kind \in ValueKinds THEN node.text ELSE ""
        below == convert_children(node.children, id_counter + 1)
    IN  [node |-> TreeNode(label, value, current_id, below.nodes),
         id_counter |-> below.id_counter]

\* let mut id_counter = 0; convert_node(root_node, source, &mut id_counter)
parse(root) == convert_node(root, 0).node

(***************************************************************************)
(* The pair comparison driver of the command line tool.  Its code is not   *)
(* among the sources at hand (only its integration tests are); it is       *)
(* modelled from the procedure the specification gives: filter the         *)
(* function records, form the pairs, score each pair with calculate_tsed,  *)
(* retain the pairs at or above the threshold, sort, print.                *)
(***************************************************************************)
MaxFunctions == 3

NoDuplicates == "No duplicate functions found!"

\* Function names, as sequences of word parts.
NormalName == <<"another_", "test_", "helper">>
AttributeTestName == <<"should_", "be_", "skipped">>
PrefixTestName == <<"test_", "helper_", "function">>

\* What a function of the input file is like: its name, whether it carries the
\* #[test] attribute, its number of lines and its tree.
FunctionKinds ==
    {[name |-> NormalName, test_attribute |-> FALSE],
     [name |-> AttributeTestName, test_attribute |-> TRUE],
     [name |-> PrefixTestName, test_attribute |-> FALSE]}
FunctionLines == {1, 4}
FunctionTrees ==
    {[size |-> ShortFunctionSize, label |-> "identifier", value |-> v] :
        v \in TreeValues}
Profiles == [kind : FunctionKinds, lines : FunctionLines, tree : FunctionTrees]

\* The function records of a file whose functions follow each other, one
\* blank line between two of them, the first on line `line`.
RECURSIVE FileOf(_, _)
FileOf(profiles, line) ==
    IF profiles = <<>> THEN <<>>
    ELSE LET p == profiles[1]
         IN  <<[name |-> p.kind.name,
                test_attribute |-> p.kind.test_attribute,
                start_line |-> line,
                end_line |-> line + p.lines - 1,
                tree |-> p.tree]>>
             \o FileOf(Tail(profiles), line + p.lines + 1)

Files == {FileOf(ps, 2) : ps \in [1..MaxFunctions -> Profiles]}

CliOptions ==
    [threshold : {Rat(7, 10), Rat(17, 20)}, min_lines : {1, 4},
     skip_test : BOOLEAN]

\* Mutant: the line count taken as end_line - start_line.
line_count_without_last(f) == f.end_line - f.start_line

\* end_line - start_line + 1
line_count(f) == f.end_line - f.start_line + 1

\* Mutant: only the attribute marks a test.
is_test_by_attribute(f) == f.test_attribute

\* A test carries the #[test] attribute or a name that starts with test_.
is_test(f) == f.test_attribute \/ (Len(f.name) > 0 /\ f.name[1] = "test_")

\* Step 2: the records that stay.
keep_function(f, opts) ==
    /\ ~(line_count(f) < opts.min_lines)
    /\ ~(opts.skip_test /\ is_test(f))

\* The options the tool scores with: the default costs and size penalty.
tsed_options(opts) == [DefaultOptions EXCEPT !.min_lines = opts.min_lines]

\* Mutant: every scored pair retained.
retain_pair_always(sim, threshold) == TRUE

\* Step 5: similarity >= threshold.
retain_pair(sim, threshold) ==
    RealGeqZero(sim) /\ RLeq(RMul(threshold, threshold), Square(sim))

\* Steps 3 to 5: the pairs (i, j), i < j, of kept functions that are retained,
\* as a set of results.
similar_pairs(fs, opts) ==
    {[f1 |-> fs[i], f2 |-> fs[j],
      similarity |-> calculate_tsed(fs[i].tree, fs[j].tree, tsed_options(opts))] :
        <<i, j>> \in {q \in (1..Len(fs)) \X (1..Len(fs)) :
            /\ q[1] < q[2]
            /\ keep_function(fs[q[1]], opts)
            /\ keep_function(fs[q[2]], opts)
            /\ retain_pair(calculate_tsed(fs[q[1]].tree, fs[q[2]].tree,
                                          tsed_options(opts)),
                           opts.threshold)}}

\* r1 comes before r2: higher similarity first, then the start lines.
result_before(r1, r2) ==
    \/ RLess(Square(r2.similarity), Square(r1.similarity))
    \/ /\ Square(r1.similarity) = Square(r2.similarity)
       /\ \/ r1.f1.start_line < r2.f1.start_line
          \/ /\ r1.f1.start_line = r2.f1.start_line
             /\ r1.f2.start_line <= r2.f2.start_line

RECURSIVE sort_results(_)
sort_results(rs) ==
    IF rs = {} THEN <<>>
    ELSE LET first == CHOOSE r \in rs : \A o \in rs : result_before(r, o)
         IN  <<first>> \o sort_results(rs \ {first})

\* What a run prints: the pairs, or the notice that there are none.
report(results) ==
    [message |-> IF results = <<>> THEN NoDuplicates ELSE "",
     pairs |-> results]

(***************************************************************************)
(* Idle values of the parts a specification does not exercise.             *)
(***************************************************************************)
NoTree == [size |-> 1, label |-> "identifier", value |-> "x"]
TsedIdle ==
    /\ tree1 = NoTree /\ tree2 = NoTree /\ options = DefaultOptions
    /\ distance = Zero /\ similarity = Real(Zero)
PythonIdle == root_node = <<>> /\ functions = <<>> /\ parsed = <<>>
NoOutput == [message |-> "", pairs |-> <<>>]
DriverIdle ==
    /\ file = <<>>
    /\ cli = [threshold |-> Rat(17, 20), min_lines |-> 5, skip_test |-> FALSE]
    /\ stdout = NoOutput
    /\ exit_code = -1

(***************************************************************************)
(* The scorer's specification: any two trees and any options, then one     *)
(* call of calculate_tsed.                                                 *)
(***************************************************************************)
TsedInit ==
    /\ pc = "start"
    /\ tree1 \in Trees
    /\ tree2 \in Trees
    /\ options \in TSEDOptionsSet
    /\ distance = Zero
    /\ similarity = Real(Zero)
    /\ PythonIdle
    /\ DriverIdle

CalculateTsed ==
    /\ pc = "start"
    /\ distance' = compute_edit_distance(tree1, tree2, options.apted_options)
    /\ similarity' = calculate_tsed(tree1, tree2, options)
    /\ pc' = "done"
    /\ UNCHANGED <<tree1, tree2, options, python_vars, driver_vars>>

TsedNext == CalculateTsed

SpecTsed == TsedInit /\ [][TsedNext]_vars

(***************************************************************************)
(* The extractor's specification: any source of the family above, then one *)
(* call of extract_functions.                                              *)
(***************************************************************************)
PythonInit ==
    /\ pc = "start"
    /\ root_node \in {RootNode(m) : m \in Modules}
    /\ functions = <<>>
    /\ parsed = <<>>
    /\ TsedIdle
    /\ DriverIdle

ExtractFunctions ==
    /\ pc = "start"
    /\ functions' = extract_functions(root_node)
    /\ pc' = "done"
    /\ UNCHANGED <<root_node, parsed, tsed_vars, driver_vars>>

PythonNext == ExtractFunctions

SpecPython == PythonInit /\ [][PythonNext]_vars

(***************************************************************************)
(* The tree builder's specification: any source of the family above, then  *)
(* one call of parse.                                                      *)
(***************************************************************************)
Parse ==
    /\ pc = "start"
    /\ parsed' = parse(root_node)
    /\ pc' = "done"
    /\ UNCHANGED <<root_node, functions, tsed_vars, driver_vars>>

ParseNext == Parse

SpecParse == PythonInit /\ [][ParseNext]_vars

(***************************************************************************)
(* The driver's specification: any file of MaxFunctions functions and any  *)
(* options, then one run of the tool.                                      *)
(***************************************************************************)
DriverInit ==
    /\ pc = "start"
    /\ file \in Files
    /\ cli \in CliOptions
    /\ stdout = NoOutput
    /\ exit_code = -1
    /\ TsedIdle
    /\ PythonIdle

RunCli ==
    /\ pc = "start"
    /\ stdout' = report(sort_results(similar_pairs(file, cli)))
    /\ exit_code' = 0
    /\ pc' = "done"
    /\ UNCHANGED <<file, cli, tsed_vars, python_vars>>

DriverNext == RunCli

SpecDriver == DriverInit /\ [][DriverNext]_vars

(***************************************************************************)
(* Properties of the scorer.                                               *)
(***************************************************************************)
LargerSize == IF tree1.size > tree2.size THEN tree1.size ELSE tree2.size
SmallerSize == IF tree1.size < tree2.size THEN tree1.size ELSE tree2.size

\* max(0, 1 - d/m) for the distance d the call computed and m the larger size,
\* and 1 when m = 0, written on integers.
BaseScore ==
    IF LargerSize = 0 THEN One
    ELSE IF distance.num >= LargerSize * distance.den THEN Zero
    ELSE Rat(LargerSize * distance.den - distance.num, LargerSize * distance.den)

\* The square of the short-function factor: min/20 below 20 nodes, else 1.
ShortFactorSquared ==
    IF SmallerSize < 20 THEN Rat(SmallerSize, 20) ELSE One

\* The square of the size-ratio factor: min/max when min/max < 1/2, else 1.
RatioFactorSquared ==
    IF 2 * SmallerSize < LargerSize THEN Rat(SmallerSize, LargerSize) ELSE One

\* C1: whatever the trees and the non-negative costs, with the size penalty on
\* or off, the similarity calculate_tsed returns lies between 0 and 1.
C1_SimilarityInUnitInterval ==
    pc = "done" => RealGeqZero(similarity) /\ RealLeqOne(similarity)

\* C1 witness: a call with the size penalty on, trees of different sizes and a
\* distance larger than the larger tree (the clamp at zero acts).
C1_Witness ==
    /\ pc = "done"
    /\ options.size_penalty
    /\ tree1.size # tree2.size
    /\ distance.num > LargerSize * distance.den

\* C2: a tree compared with itself scores exactly 1.0 when the size penalty is
\* off or the tree has at least 20 nodes.
C2_IdenticalTreesScoreOne ==
    (/\ pc = "done"
     /\ tree1 = tree2
     /\ (~options.size_penalty \/ get_subtree_size(tree1) >= 20))
    => RealEq(similarity, Real(One))

\* C2 witness: a tree of more than 20 nodes compared with itself, size penalty
\* on, insert and delete costs not zero.
C2_Witness ==
    /\ pc = "done"
    /\ tree1 = tree2
    /\ options.size_penalty
    /\ get_subtree_size(tree1) > 20
    /\ options.apted_options.delete_cost # Zero
    /\ options.apted_options.insert_cost # Zero

\* C3: with the size penalty off the result is exactly the base score
\* max(0, 1 - d/m), m the larger of the two sizes (1.0 when m = 0).
C3_BaseScoreWithoutPenalty ==
    (pc = "done" /\ ~options.size_penalty)
    => RealEq(similarity, Real(BaseScore))

\* C3 witness: penalty off, trees of different sizes, a score strictly between
\* 0 and 1.
C3_Witness ==
    /\ pc = "done"
    /\ ~options.size_penalty
    /\ tree1.size # tree2.size
    /\ RLess(Zero, Square(similarity))
    /\ RLess(Square(similarity), One)

\* C4: with the size penalty on the result is the base score times the
\* short-function factor (sqrt(min/20) below 20 nodes) times the size-ratio
\* factor (sqrt(min/max) when min/max < 0.5); with the penalty off neither
\* factor is applied.
C4_PenaltyFactors ==
    pc = "done" =>
        /\ RealGeqZero(similarity)
        /\ Square(similarity) =
               IF options.size_penalty
               THEN RMul(RMul(RMul(BaseScore, BaseScore), ShortFactorSquared),
                         RatioFactorSquared)
               ELSE RMul(BaseScore, BaseScore)

\* C4 witness: penalty on, the smaller tree below 20 nodes and less than half
\* the larger one, a score that is not zero.
C4_Witness ==
    /\ pc = "done"
    /\ options.size_penalty
    /\ SmallerSize < 20
    /\ 2 * SmallerSize < LargerSize
    /\ RLess(Zero, Square(similarity))

\* C13: with insert_cost = delete_cost, for which the engine's distance is the
\* same in both directions, calculate_tsed gives the same score for (T1, T2)
\* and for (T2, T1), with and without size_penalty.
C13_Symmetric ==
    (/\ pc = "done"
     /\ options.apted_options.insert_cost = options.apted_options.delete_cost
     /\ distance = compute_edit_distance(tree2, tree1, options.apted_options))
        => RealEq(similarity, calculate_tsed(tree2, tree1, options))

\* C13 witness: trees of different sizes scored with equal, non-zero insert
\* and delete costs and the size penalty on, the score strictly between 0
\* and 1.
C13_Witness ==
    /\ pc = "done"
    /\ options.apted_options.insert_cost = options.apted_options.delete_cost
    /\ options.apted_options.insert_cost # Zero
    /\ distance = compute_edit_distance(tree2, tree1, options.apted_options)
    /\ options.size_penalty
    /\ get_subtree_size(tree1) < get_subtree_size(tree2)
    /\ SmallerSize < 20
    /\ RLess(Zero, Square(similarity))
    /\ RLess(Square(similarity), One)

(***************************************************************************)
(* Properties of the driver.                                               *)
(***************************************************************************)
\* The functions that occur in a reported pair.
ReportedFunctions ==
    {stdout.pairs[n].f1 : n \in 1..Len(stdout.pairs)}
    \cup {stdout.pairs[n].f2 : n \in 1..Len(stdout.pairs)}

\* The pair of the i-th and the j-th function of the file is reported.
Reported(i, j) ==
    \E n \in 1..Len(stdout.pairs) :
        stdout.pairs[n].f1 = file[i] /\ stdout.pairs[n].f2 = file[j]

Lines(f) == f.end_line - f.start_line + 1
FlaggedTest(f) == f.test_attribute \/ SubSeq(f.name, 1, 1) = <<"test_">>
\* The score of two functions under the default costs and size penalty.
Score(f, g) == calculate_tsed(f.tree, g.tree, DefaultOptions)
ClearsThreshold(f, g) ==
    RLeq(RMul(cli.threshold, cli.threshold), Square(Score(f, g)))
\* The functions no filter of the run drops.
Eligible(f) ==
    /\ Lines(f) >= cli.min_lines
    /\ ~(cli.skip_test /\ FlaggedTest(f))

\* C5: with min_lines = k no reported pair contains a function of fewer than k
\* lines, and two functions of at least k lines are still reported when no
\* other filter drops them and they clear the threshold.
C5_MinLines ==
    pc = "done" =>
        /\ \A f \in ReportedFunctions : Lines(f) >= cli.min_lines
        /\ \A i, j \in 1..Len(file) :
               (/\ i < j
                /\ Eligible(file[i]) /\ Eligible(file[j])
                /\ ClearsThreshold(file[i], file[j]))
               => Reported(i, j)

\* C5 witness: min_lines = 4, a function of exactly 4 lines reported and a
\* one-line function in the file.
C5_Witness ==
    /\ pc = "done"
    /\ cli.min_lines = 4
    /\ \E f \in ReportedFunctions : Lines(f) = 4
    /\ \E i \in 1..Len(file) : Lines(file[i]) = 1

\* C6: with --skip-test no function flagged as a test (the #[test] attribute,
\* or a name that starts with test_) occurs in a reported pair, and the pairs
\* of functions that are not tests are still reported.
C6_SkipTest ==
    (pc = "done" /\ cli.skip_test) =>
        /\ \A f \in ReportedFunctions : ~FlaggedTest(f)
        /\ \A i, j \in 1..Len(file) :
               (/\ i < j
                /\ ~FlaggedTest(file[i]) /\ ~FlaggedTest(file[j])
                /\ Lines(file[i]) >= cli.min_lines
                /\ Lines(file[j]) >= cli.min_lines
                /\ ClearsThreshold(file[i], file[j]))
               => Reported(i, j)

\* C6 witness: --skip-test, a file with a test and two functions that are not
\* tests, whose pair is reported.
C6_Witness ==
    /\ pc = "done"
    /\ cli.skip_test
    /\ \E i \in 1..Len(file) : FlaggedTest(file[i])
    /\ \E i, j \in 1..Len(file) :
           i < j /\ ~FlaggedTest(file[i]) /\ ~FlaggedTest(file[j]) /\ Reported(i, j)

\* C7: a pair is reported only if its similarity is >= the threshold; when no
\* pair clears the threshold the run exits with 0 and prints the notice
\* "No duplicate functions found!".
C7_Threshold ==
    pc = "done" =>
        /\ \A n \in 1..Len(stdout.pairs) :
               ClearsThreshold(stdout.pairs[n].f1, stdout.pairs[n].f2)
        /\ (\A i, j \in 1..Len(file) :
                (i < j /\ Eligible(file[i]) /\ Eligible(file[j]))
                => ~ClearsThreshold(file[i], file[j]))
           => (exit_code = 0 /\ stdout = [message |-> NoDuplicates, pairs |-> <<>>])

\* C7 witness: a run that scored a pair, found it below the threshold and
\* printed the notice.
C7_Witness ==
    /\ pc = "done"
    /\ exit_code = 0
    /\ stdout.message = NoDuplicates
    /\ \E i, j \in 1..Len(file) :
           /\ i < j /\ Eligible(file[i]) /\ Eligible(file[j])
           /\ ~ClearsThreshold(file[i], file[j])

(***************************************************************************)
(* Properties of the Python extractor.  The definitions of a source are    *)
(* read off its syntax tree, independently of the traversal: every         *)
(* function_definition, in source order, with the whole definition it      *)
(* belongs to (its decorated_definition when it has decorators), the names *)
(* of the classes around it and whether it lies inside another function.   *)
(***************************************************************************)
FieldText(node, name) ==
    LET hits == {i \in 1..Len(node.children) : node.children[i].field = name}
    IN  node.children[CHOOSE i \in hits : TRUE].text

FieldNode(node, name) ==
    LET hits == {i \in 1..Len(node.children) : node.children[i].field = name}
    IN  node.children[CHOOSE i \in hits : TRUE]

LastChild(node) == node.children[Len(node.children)]

RECURSIVE DefsOf(_, _, _, _), DefsOfSeq(_, _, _, _)

DefsOfSeq(nodes, classes, in_function, in_decorated_class) ==
    IF nodes = <<>> THEN <<>>
    ELSE DefsOf(nodes[1], classes, in_function, in_decorated_class)
         \o DefsOfSeq(Tail(nodes), classes, in_function, in_decorated_class)

DefsOf(node, classes, in_function, in_decorated_class) ==
    CASE node.kind = "function_definition" ->
            <<[whole |-> node, def |-> node, decorated |-> FALSE,
               classes |-> classes, in_function |-> in_function,
               in_decorated_class |-> in_decorated_class]>>
            \o DefsOfSeq(node.children, classes, TRUE, in_decorated_class)
      [] node.kind = "decorated_definition"
         /\ LastChild(node).kind = "function_definition" ->
            <<[whole |-> node, def |-> LastChild(node), decorated |-> TRUE,
               classes |-> classes, in_function |-> in_function,
               in_decorated_class |-> in_decorated_class]>>
            \o DefsOfSeq(LastChild(node).children, classes, TRUE,
                         in_decorated_class)
      [] node.kind = "decorated_definition" ->
            DefsOfSeq(node.children, classes, in_function, TRUE)
      [] node.kind = "class_definition" ->
            DefsOfSeq(node.children, Append(classes, FieldText(node, "name")),
                      in_function, in_decorated_class)
      [] OTHER -> DefsOfSeq(node.children, classes, in_function,
                            in_decorated_class)

\* The functions defined at module level and the methods defined in classes,
\* in source order.
Definitions ==
    SelectSeq(DefsOf(root_node, <<>>, FALSE, FALSE), LAMBDA d : ~d.in_function)

\* The names a parameter list declares: plain identifiers and the names of
\* parameters with a default.
RECURSIVE ParamNames(_)
ParamNames(children) ==
    IF children = <<>> THEN <<>>
    ELSE (IF children[1].kind = "identifier" THEN <<children[1].text>>
          ELSE IF children[1].kind = "default_parameter"
          THEN <<FieldText(children[1], "name")>>
          ELSE <<>>)
         \o ParamNames(Tail(children))

\* The records reported for definition d: those that start on its first line.
RecordsOf(d) ==
    {i \in 1..Len(functions) : functions[i].start_line = d.whole.start_row + 1}

\* The rows (1-based lines) of the decorators of a decorated definition.
DecoratorLines(d) ==
    {d.whole.children[i].start_row + 1 :
        i \in {j \in 1..Len(d.whole.children) :
                  d.whole.children[j].kind = "decorator"}}

\* The record r is the one the contract asks for definition d.
RecordMatches(r, d) ==
    /\ r.name = FieldText(d.def, "name")
    /\ r.start_line = d.whole.start_row + 1
    /\ r.end_line = d.whole.end_row + 1
    /\ r.is_method = (d.classes # <<>>)
    /\ r.class_name = IF d.classes = <<>> THEN None
                      ELSE Some(d.classes[Len(d.classes)])

\* C8: extract_functions returns, in source order, one record for every
\* function defined at module level (is_method false, no class_name) and for
\* every method defined in a class (is_method true, class_name the enclosing
\* class); class_name is present exactly when is_method is true.
C8_EveryFunctionAndMethod ==
    pc = "done" =>
        /\ Len(functions) = Len(Definitions)
        /\ \A i \in 1..Len(functions) :
               i <= Len(Definitions) => RecordMatches(functions[i], Definitions[i])
        /\ \A i \in 1..Len(functions) :
               functions[i].class_name.is_some <=> functions[i].is_method

\* C9: each method of a class nested inside another class is reported exactly
\* once.
C9_InnerClassMethodOnce ==
    pc = "done" =>
        \A i \in 1..Len(Definitions) :
            Len(Definitions[i].classes) >= 2
            => Cardinality(RecordsOf(Definitions[i])) = 1

\* C10: a decorated function yields exactly one record; its name, parameters
\* and body lines are those of the inner function definition, its start and
\* end lines those of the whole decorated definition, so that the decorator
\* lines lie inside start_line..end_line and outside the body lines.
C10_DecoratedFunctionRecord ==
    pc = "done" =>
        \A i \in 1..Len(Definitions) :
            LET d == Definitions[i]
            IN  d.decorated =>
                /\ Cardinality(RecordsOf(d)) = 1
                /\ \A j \in RecordsOf(d) :
                       LET r == functions[j]
                           body == FieldNode(d.def, "body")
                       IN  /\ r.name = FieldText(d.def, "name")
                           /\ r.parameters =
                                  ParamNames(FieldNode(d.def, "parameters").children)
                           /\ r.body_start_line = body.start_row + 1
                           /\ r.body_end_line = body.end_row + 1
                           /\ r.start_line = d.whole.start_row + 1
                           /\ r.end_line = d.whole.end_row + 1
                           /\ \A l \in DecoratorLines(d) :
                                  /\ r.start_line <= l /\ l <= r.end_line
                                  /\ ~(r.body_start_line <= l /\ l <= r.body_end_line)

\* What the traversal does report: the definitions at module level and in the
\* body of a module-level class that has no decorator, in source order, each
\* with the record the contract asks for.
ReportedDefinitions ==
    SelectSeq(Definitions,
              LAMBDA d : Len(d.classes) <= 1 /\ ~d.in_decorated_class)

ReachedDefinitionsReported ==
    pc = "done" =>
        /\ Len(functions) = Len(ReportedDefinitions)
        /\ \A i \in 1..Len(functions) :
               i <= Len(ReportedDefinitions) =>
               LET d == ReportedDefinitions[i]
                   r == functions[i]
                   body == FieldNode(d.def, "body")
               IN  /\ RecordMatches(r, d)
                   /\ r.parameters =
                          ParamNames(FieldNode(d.def, "parameters").children)
                   /\ r.body_start_line = body.start_row + 1
                   /\ r.body_end_line = body.end_row + 1
                   /\ \A l \in DecoratorLines(d) :
                          /\ r.start_line <= l /\ l <= r.end_line
                          /\ ~(r.body_start_line <= l /\ l <= r.body_end_line)

(***************************************************************************)
(* Properties of the tree builder.                                         *)
(***************************************************************************)
\* The ids of a tree in pre-order: a node, then its children's subtrees from
\* left to right.
RECURSIVE PreOrderIds(_), PreOrderIdsSeq(_)
PreOrderIdsSeq(trees) ==
    IF trees = <<>> THEN <<>>
    ELSE PreOrderIds(trees[1]) \o PreOrderIdsSeq(Tail(trees))
PreOrderIds(tree) == <<tree.id>> \o PreOrderIdsSeq(tree.children)

\* The labels of a tree in pre-order.
RECURSIVE PreOrderLabels(_), PreOrderLabelsSeq(_)
PreOrderLabelsSeq(trees) ==
    IF trees = <<>> THEN <<>>
    ELSE PreOrderLabels(trees[1]) \o PreOrderLabelsSeq(Tail(trees))
PreOrderLabels(tree) == <<tree.label>> \o PreOrderLabelsSeq(tree.children)

\* The kinds of the nodes of a syntax tree in pre-order, comments left out.
RECURSIVE KindsWithoutComments(_), KindsWithoutCommentsSeq(_)
KindsWithoutCommentsSeq(nodes) ==
    IF nodes = <<>> THEN <<>>
    ELSE KindsWithoutComments(nodes[1]) \o KindsWithoutCommentsSeq(Tail(nodes))
KindsWithoutComments(node) ==
    IF node.kind = "comment" THEN <<>>
    ELSE <<node.kind>> \o KindsWithoutCommentsSeq(node.children)

\* The number of nodes of a syntax tree.
RECURSIVE CountNodes(_), CountNodesSeq(_)
CountNodesSeq(nodes) ==
    IF nodes = <<>> THEN 0
    ELSE CountNodes(nodes[1]) + CountNodesSeq(Tail(nodes))
CountNodes(node) == 1 + CountNodesSeq(node.children)

\* C11: in the tree parse returns the ids are assigned in pre-order (a node's
\* id is smaller than those of its descendants and of its later siblings'
\* subtrees), are unique and are exactly 0..N-1, N the number of nodes, the
\* root having id 0.
C11_PreOrderIds ==
    pc = "done" =>
        LET ids == PreOrderIds(parsed)
        IN  /\ Len(ids) = CountNodes(root_node)
            /\ parsed.id = 0
            /\ \A i \in 1..Len(ids) : ids[i] = i - 1

\* C11 witness: a parsed source whose root has several children with
\* children of their own.
C11_Witness ==
    /\ pc = "done"
    /\ Len(parsed.children) >= 2
    /\ parsed.children[1].children # <<>>
    /\ parsed.children[2].id > parsed.children[1].id + 1

\* C12: the tree parse returns has no node for a comment: it is the syntax
\* tree with the comments left out, so that sources that differ only in
\* comments give trees of the same size and labels.
C12_CommentsExcluded ==
    pc = "done" =>
        /\ \A i \in 1..Len(PreOrderLabels(parsed)) :
               PreOrderLabels(parsed)[i] # "comment"
        /\ PreOrderLabels(parsed) = KindsWithoutComments(root_node)

====
